---- MODULE Spec2Model ----
(***************************************************************************)
(* Model of ClickHouseClient (the HTTP client of                           *)
(* depyronick/clickhouse-client): query / queryPromise / insert /          *)
(* insertPromise, the streaming row decoder, the error extractor and the   *)
(* transport events that drive them.                                       *)
(*                                                                         *)
(* A text is a sequence of one-character strings.  Every value a caller    *)
(* can observe (a row, an error text, a failure object, undefined, a list  *)
(* of rows) is a sequence of strings whose first element is its tag.       *)
(* trace[c] is the ordered record of what call c did to the outside:       *)
(* logger.error calls, the calls made on the subscriber (next / error /    *)
(* complete), promise settlements and synchronous throws.                  *)
(***************************************************************************)
EXTENDS Integers, Sequences, FiniteSets, TLC

\* ------------------------------------------------------------------ bounds
MaxRows == 2
MaxChunks == 2
MaxRecords == 2
MaxClients == 3

VARIABLES ctor, options, pc, kind, args, req, resp, pos, parser, err, trace

vars == <<ctor, options, pc, kind, args, req, resp, pos, parser, err, trace>>

Calls == DOMAIN pc

SeqsUpTo(S, n) == UNION {[1..k -> S] : k \in 0..n}

\* ------------------------------------------------------------------ texts
WhiteSpace == {" ", "\n"}

RECURSIVE trimStart(_)
trimStart(s) ==
    IF s = <<>> THEN s
    ELSE IF Head(s) \in WhiteSpace THEN trimStart(Tail(s)) ELSE s

RECURSIVE trimEnd(_)
trimEnd(s) ==
    IF s = <<>> THEN s
    ELSE IF s[Len(s)] \in WhiteSpace THEN trimEnd(SubSeq(s, 1, Len(s) - 1)) ELSE s

trim(s) == trimEnd(trimStart(s))

RECURSIVE join(_, _)
join(parts, sep) ==
    IF parts = <<>> THEN <<>>
    ELSE IF Len(parts) = 1 THEN Head(parts)
    ELSE Head(parts) \o sep \o join(Tail(parts), sep)

\* ----------------------------------------------------------------- values
Txt(s) == <<"text">> \o s
Row(r) == <<"row", r>>
List(rows) == <<"list">> \o rows
Undefined == <<"undefined">>
Nothing == <<"void">>

Bool(b) == <<"boolean", IF b THEN "true" ELSE "false">>

Ev(t, v) == [t |-> t, v |-> v]

\* ---------------------------------------------------------- configuration
JsonFormats == {"JSON", "JSONCompact", "JSONCompactStrings", "JSONStrings"}

ClickHouseDataFormat == JsonFormats

Formats == ClickHouseDataFormat \cup {"XML"}

\* the members of ClickHouseCompressionMethod the code names
ClickHouseCompressionMethod == {"NONE", "GZIP", "DEFLATE", "BROTLI"}

\* this.options: the fields the requests are built from.  No code path reads
\* both format and compression, so they are varied one at a time: every format
\* without compression, every compression with format JSON.
Configs ==
    {o \in [format : Formats, database : {"default"},
             httpConfig : [compression : ClickHouseCompressionMethod]] :
        o.format = "JSON" \/ o.httpConfig.compression = "NONE"}

\* ------------------------------------------------------------ constructor
\* An options object is a function from the paths below to texts: "absent" says
\* the object has no such property, "undefined" that it has the property with
\* the value undefined, "object" that the property holds a nested object.
OptionPaths ==
    {"format", "database", "httpConfig", "httpConfig.protocol", "httpConfig.compression"}

\* the top-level property a path belongs to
Parent(p) ==
    IF p \in {"httpConfig.protocol", "httpConfig.compression"} THEN "httpConfig" ELSE p

\* new ClickHouseClientOptions(): the values of the class's field initializers
ClassDefaults ==
    [p \in OptionPaths |->
        CASE p = "format" -> "JSON"
          [] p = "database" -> "default"
          [] p = "httpConfig" -> "object"
          [] p = "httpConfig.protocol" -> "HTTP"
          [] p = "httpConfig.compression" -> "NONE"]

\* Object.assign(target, source): every own property of source, also one whose
\* value is undefined, replaces the target's; a nested object is taken over whole
Assign(target, source) ==
    [p \in OptionPaths |-> IF source[Parent(p)] # "absent" THEN source[p] ELSE target[p]]

\* `new ClickHouseClient()`: no options object is passed
NotPassed == [p \in OptionPaths |-> "no object"]

\* the options objects a caller passes
UserOptions ==
    {u \in [OptionPaths -> {"absent", "undefined", "object", "JSONCompact", "HTTPS", "GZIP"}] :
        /\ u["format"] \in {"absent", "undefined", "JSONCompact"}
        /\ u["database"] = "absent"
        /\ u["httpConfig"] \in {"absent", "undefined", "object"}
        /\ u["httpConfig.protocol"] \in {"absent", "HTTPS"}
        /\ u["httpConfig.compression"] \in {"absent", "GZIP"}
        /\ u["httpConfig"] # "object"
                => (u["httpConfig.protocol"] = "absent" /\ u["httpConfig.compression"] = "absent")}

\* a constructor that assigns into one defaults object all clients share
DefaultsAfter_Shared(defaults, passed) ==
    IF passed = NotPassed THEN defaults ELSE Assign(defaults, passed)

\* `new ClickHouseClientOptions()` is evaluated anew by every constructor call and
\* the assignment goes into that new object: the class's initial values stay
DefaultsAfter(defaults, passed) == defaults

\* the constructor: this.options after `new ClickHouseClient(passed)`
constructor(defaults, passed) ==
    IF passed = NotPassed THEN defaults ELSE Assign(defaults, passed)

NotConstructed == [p \in OptionPaths |-> "no client"]

\* the fields of this.options the calls read
Effective(o) ==
    [format |-> o["format"], database |-> o["database"],
     httpConfig |-> [compression |-> o["httpConfig.compression"]]]

\* an options object that spells out the configuration o
UserFor(o) ==
    [p \in OptionPaths |->
        CASE p = "format" -> o.format
          [] p = "database" -> o.database
          [] p = "httpConfig" -> "object"
          [] p = "httpConfig.protocol" -> "HTTP"
          [] p = "httpConfig.compression" -> o.httpConfig.compression]

\* the state of one client constructed from `passed`
Constructed(passed) ==
    [passed |-> <<passed>>,
     clients |-> <<constructor(ClassDefaults, passed)>>,
     defaults |-> DefaultsAfter(ClassDefaults, passed)]

\* a request builder that clears the compression setting once it has used it
OptionsAfterRequest_Cleared(o) == [o EXCEPT !.httpConfig.compression = "NONE"]

\* _getRequestOptions, _getHeaders and _getUrl only read this.options
OptionsAfterRequest(o) == o

\* ----------------------------------------------------------------- inputs
SqlTexts == {<<>>, <<" ">>, <<"\n", " ">>, <<"S", " ">>, <<" ", "S">>}

TableTexts == {<<>>, <<" ">>, <<"t">>}

Records == {"d1", "d2"}

DataInputs ==
    {[isArray |-> FALSE, items |-> <<>>]}
        \cup {[isArray |-> TRUE, items |-> s] : s \in SeqsUpTo(Records, MaxRecords)}

\* params?: Record<string, string | number>, as Object.entries lists it
ParamValues == {[type |-> "number", text |-> "7"], [type |-> "string", text |-> "a"]}

QueryParams ==
    {<<>>,
     <<[key |-> "p", value |-> [type |-> "number", text |-> "7"]]>>,
     <<[key |-> "q", value |-> [type |-> "string", text |-> "a"]],
       [key |-> "p", value |-> [type |-> "number", text |-> "7"]]>>}

\* ping's timeout: the default, or 0 (no timeout)
DefaultTimeout == 3000

PingTimeouts == {0, DefaultTimeout}

NoArgs ==
    [query |-> <<>>, params |-> <<>>, table |-> <<>>,
     data |-> [isArray |-> FALSE, items |-> <<>>], timeout |-> 0]

\* ------------------------------------------------------- the server's side
Rows == {"r1", "r2"}

Items == Rows \cup {"m1"}

Keys == {"k:meta", "k:data", "k:rows"}

Envelopes ==
    [meta : BOOLEAN, hasData : BOOLEAN, rows : SeqsUpTo(Rows, MaxRows), stats : BOOLEAN]

Encode(e) ==
    <<"{">>
        \o (IF e.meta THEN <<"k:meta", "[", "m1", "]">> ELSE <<>>)
        \o (IF e.hasData THEN <<"k:data", "[">> \o e.rows \o <<"]">> ELSE <<>>)
        \o (IF e.stats THEN <<"k:rows", "s">> ELSE <<>>)
        \o <<"}">>

WireEnvelopes == {e \in Envelopes : e.hasData \/ e.rows = <<>>}

\* a whole success body as text: an envelope, cut anywhere, or with a malformed byte
SuccessBodies ==
    UNION {{[env |-> e, tokens |-> SubSeq(Encode(e), 1, k) \o bad] :
                k \in 0..Len(Encode(e)), bad \in {<<>>, <<"bad">>}} :
           e \in WireEnvelopes}

\* what the wire can carry next after n tokens of the envelope: the envelope's
\* next token, or a malformed byte
NextOnWire(e, sent) ==
    {"bad"} \cup (IF Len(sent) < Len(Encode(e)) /\ sent = SubSeq(Encode(e), 1, Len(sent))
                  THEN {Encode(e)[Len(sent) + 1]} ELSE {})

ErrChunkTexts == {<<" ">>, <<"E">>, <<"r", "\n">>}

ErrorBodies == SeqsUpTo(ErrChunkTexts, MaxChunks)

RawChunks == {"x"}

Reasons == {<<"reason", "ECONNREFUSED">>, <<"reason", "ETIMEDOUT">>}

\* the failure axios reports when `timeout` milliseconds have passed
TimeoutExceeded == <<"reason", "ECONNABORTED">>

\* the failure axios reports for a response with a non-2xx status (reason.response set)
BadStatus == <<"reason", "ERR_BAD_RESPONSE">>

\* bodies the server may answer GET /ping with
OkLiteral == <<"O", "k", ".", "\n">>

PingBodies ==
    {<<>>, OkLiteral, <<"O", "k", ".">>, <<"o", "k", ".", "\n">>,
     OkLiteral \o <<"x">>, <<"x">> \o OkLiteral}

NoResp ==
    [status |-> "none", env |-> [meta |-> FALSE, hasData |-> FALSE, rows |-> <<>>, stats |-> FALSE],
     tokens |-> <<>>, chunks |-> <<>>, ending |-> "open", reason |-> Undefined]

\* ------------------------------------------------------------- validation
\* a validation that forgets trim(): only the empty text is refused
IsBlank_NoTrim(text) == text = <<>>

\* `!query || query.trim() == ''`
IsBlank(text) == text = <<>> \/ trim(text) = <<>>

NoThrow == <<>>

\* a validation that forgets to look at the configured format
_validateQuery_NoFormatCheck(query) ==
    IF IsBlank(query) THEN <<"Error", "Query is required">> ELSE NoThrow

\* _validateQuery: the message thrown, or NoThrow
_validateQuery(query) ==
    IF options.format \notin ClickHouseDataFormat
    THEN <<"Error", options.format, " is not supported.">>
    ELSE IF IsBlank(query) THEN <<"Error", "Query is required">>
    ELSE NoThrow

\* a validation that lets an empty array through
_validateInsert_NoEmptyCheck(table, data) ==
    IF IsBlank(table) THEN <<"Error", "Table name is required">>
    ELSE IF ~data.isArray THEN <<"Error", "Data must be an array">>
    ELSE NoThrow

\* _validateInsert: the message thrown, or NoThrow
_validateInsert(table, data) ==
    IF IsBlank(table) THEN <<"Error", "Table name is required">>
    ELSE IF ~data.isArray THEN <<"Error", "Data must be an array">>
    ELSE IF data.items = <<>> THEN <<"Error", "Data is empty">>
    ELSE NoThrow

\* -------------------------------------------------------- request builder
\* _getUrl, as one opaque text
_getUrl == <<"url">>

\* _getHeaders: the Accept-Encoding header of the configured compression
_getHeaders ==
    CASE options.httpConfig.compression = "GZIP" -> {<<"Accept-Encoding", "gzip">>}
      [] options.httpConfig.compression = "DEFLATE" -> {<<"Accept-Encoding", "deflate">>}
      [] options.httpConfig.compression = "BROTLI" -> {<<"Accept-Encoding", "br">>}
      [] OTHER -> {}

\* String(value), as URLSearchParams stores an entry's value
String(value) == value.text

\* a builder that passes the names on without the prefix
SearchEntries_NoPrefix(queryParams) ==
    <<[key |-> <<"database">>, value |-> options.database]>>
        \o [i \in 1..Len(queryParams) |->
                [key |-> <<queryParams[i].key>>, value |-> String(queryParams[i].value)]]

\* new URLSearchParams({database, ...param_ entries}): the entries of the object
SearchEntries(queryParams) ==
    <<[key |-> <<"database">>, value |-> options.database]>>
        \o [i \in 1..Len(queryParams) |->
                [key |-> <<"param_", queryParams[i].key>>,
                 value |-> String(queryParams[i].value)]]

\* `params['enable_http_compression'] = 1` on the URLSearchParams object: a
\* property of the object is set, its list of entries is left as it was
CompressionFlag(entries) ==
    [entries |-> entries,
     props |-> IF options.httpConfig.compression # "NONE"
               THEN {<<"enable_http_compression", "1">>} ELSE {}]

\* `if (!withoutFormat) query = `${query.trimEnd()} FORMAT ${this.options.format}``
FormatDirective(query, withoutFormat) ==
    IF withoutFormat THEN query
    ELSE trimEnd(query) \o <<" FORMAT ", options.format>>

\* _getRequestOptions: the descriptor handed to axios.request
_getRequestOptions(query, queryParams, withoutFormat) ==
    [url |-> _getUrl,
     params |-> CompressionFlag(SearchEntries(queryParams)),
     responseType |-> "stream",
     method |-> "POST",
     data |-> FormatDirective(query, withoutFormat),
     headers |-> _getHeaders]

\* the query string of a request: a URLSearchParams object is serialized by its
\* toString(), which lists its entries and none of its other properties
QueryString(r) == r.params.entries

\* the descriptor _queryPromise sends: the same, with responseType 'text'
PromiseRequest(query, params) ==
    [_getRequestOptions(query, params, FALSE) EXCEPT !.responseType = "text"]

\* JSON.stringify of one record, and the body insert builds
Stringify(d) == <<d>>

InsertQuery(table) ==
    <<"INSERT INTO ">> \o table
        \o (IF options.format = "JSON" THEN <<" FORMAT JSONEachRow ">> ELSE <<>>)

InsertData(items) ==
    IF options.format = "JSON"
    THEN join([i \in 1..Len(items) |-> Stringify(items[i])], <<"\n">>)
    ELSE Undefined

InsertRequest(table, items) ==
    [_getRequestOptions(InsertQuery(table), <<>>, TRUE)
        EXCEPT !.data = InsertQuery(table) \o InsertData(items)]

\* ------------------------------------------------------ streaming decoder
\* The pipeline stream -> Parser({jsonStreaming: true}) -> Pick({filter: 'data'})
\* -> StreamArray, fed one token at a time.  parser.st is where the tokenizer
\* stands, parser.key the top-level key whose value is being read.
NewParser == [st |-> "top", key |-> "none", values |-> 0]

\* Parser: the tokenizer's next state; "error" when the token cannot follow
ParserStep(p, tok) ==
    CASE p.st = "top" /\ tok = "{" -> [p EXCEPT !.st = "object", !.key = "none"]
      [] p.st = "object" /\ tok \in Keys -> [p EXCEPT !.st = "value", !.key = tok]
      [] p.st = "object" /\ tok = "}" ->
            [p EXCEPT !.st = "top", !.key = "none", !.values = IF @ = 0 THEN 1 ELSE 2]
      [] p.st = "value" /\ tok = "s" -> [p EXCEPT !.st = "object"]
      [] p.st = "value" /\ tok = "[" -> [p EXCEPT !.st = "array"]
      [] p.st = "array" /\ tok \in Items -> p
      [] p.st = "array" /\ tok = "]" -> [p EXCEPT !.st = "object"]
      [] OTHER -> [p EXCEPT !.st = "error"]

\* a pipeline without the Pick filter: every top-level array is streamed
Picked_AnyKey(key) == TRUE

\* Pick({filter: 'data'}): only what stands under the top-level key `data` passes
Picked(key) == key = "k:data"

\* StreamArray: one 'data' event per element of the picked array
EmitsRow(p, tok) == p.st = "array" /\ Picked(p.key) /\ tok \in Items

\* a 'data' handler that is given the rows only once their array has closed
RowsOnToken_AtClose(p, tok, seen) ==
    IF p.st = "array" /\ Picked(p.key) /\ tok = "]"
    THEN LET rows == SelectSeq(seen, LAMBDA t : t \in Rows)
         IN [i \in 1..Len(rows) |-> Ev("next", Row(rows[i]))]
    ELSE <<>>

\* pipeline.on('data', row => subscriber.next(row.value)): StreamArray hands an
\* element over when the token that completes it has been parsed
RowsOnToken(p, tok, seen) ==
    IF EmitsRow(p, tok) THEN <<Ev("next", Row(tok))>> ELSE <<>>

\* an 'end' listener attached to the response stream instead of the pipeline
MayEnd_AtTransportEnd(received, parsed) == TRUE

\* pipeline.on('end'): the last stage ends when everything that was written
\* into the first one has gone through
MayEnd(received, parsed) == parsed = received

\* Parser._flush at the end of the input: a value left open is an error
FlushOk(p) == p.st = "top"

\* ------------------------------------------------- JSON.parse(data).data
RECURSIVE ParseAll(_, _)
ParseAll(p, toks) ==
    IF toks = <<>> \/ p.st = "error" THEN p
    ELSE ParseAll(ParserStep(p, Head(toks)), Tail(toks))

\* JSON.parse accepts exactly one complete value
JsonParseOk(toks) ==
    LET p == ParseAll(NewParser, toks) IN p.st = "top" /\ p.values = 1

RECURSIVE FieldOf(_, _, _, _)
FieldOf(toks, name, key, acc) ==
    IF toks = <<>> THEN acc
    ELSE LET tok == Head(toks) IN
         IF tok \in Keys
         THEN FieldOf(Tail(toks), name, tok, IF tok = name THEN List(<<>>) ELSE acc)
         ELSE IF key = name /\ tok \in Items
              THEN FieldOf(Tail(toks), name, key, acc \o <<tok>>)
              ELSE FieldOf(Tail(toks), name, key, acc)

\* `.data` of the parsed envelope: the list of its elements, undefined without the field
JsonData(toks) == FieldOf(toks, "k:data", "none", Undefined)

\* ---------------------------------------------------------- delivery
PushKinds == {"query", "insert", "insertPromise"}

InsertKinds == {"insert", "insertPromise"}

\* the callbacks insertPromise subscribes with: error -> reject, complete -> resolve
PromiseOnError(k, value) == IF k = "insertPromise" THEN <<Ev("reject", value)>> ELSE <<>>

PromiseOnComplete(k) == IF k = "insertPromise" THEN <<Ev("resolve", Nothing)>> ELSE <<>>

\* an error handler that also ends the stream normally after the error
SurfaceError_ThenComplete(k, value) ==
    <<Ev("log", value), Ev("error", value), Ev("complete", Nothing)>>
        \o PromiseOnError(k, value)

\* _handleObservableError, both branches: logger.error(value), then subscriber.error(value)
SurfaceError(k, value) ==
    <<Ev("log", value), Ev("error", value)>> \o PromiseOnError(k, value)

\* an 'end' handler that forgets trim()
ErrorText_Untrimmed(e) == Txt(e)

\* the 'end' handler of the error body: what is logged and delivered is err.trim()
ErrorText(e) == Txt(trim(e))

\* a 'data' handler of the error body that surfaces what it has got so far
OnErrorData_Surface(k, text) == SurfaceError(k, ErrorText(text))

\* the 'data' handler of the error body: it accumulates, and neither logs nor
\* notifies
OnErrorData(k, text) == <<>>

\* a failure handler that sends the request again
RequestsAfterFailure_Retry(sent) == sent \o sent

\* the requests of a call once its failure handler has run: the handlers of
\* .catch issue none
RequestsAfterFailure(sent) == sent

\* an accumulator all calls share
ErrCell_Shared(c) == 1

\* the accumulator of call c: `let err` is a local of the handler's invocation
ErrCell(c) == c

\* an else branch that delivers the failure's message instead of the object
FailureValue_Message(reason) == Txt(<<reason[2]>>)

\* the else branch: the failure object itself
FailureValue(reason) == reason

\* a 'data' handler of insert that hands the chunk to the subscriber
InsertOnData_Next(chunk) == <<Ev("next", Txt(<<chunk>>))>>

\* the 'data' handler of insert's response stream: nothing is done with the chunk
InsertOnData(chunk) == <<>>

\* the 'end' handler of a success stream: subscriber.complete()
Complete(k) == <<Ev("complete", Nothing)>> \o PromiseOnComplete(k)

\* _handlePromiseError: logs reason.response.data or reason; it returns nothing,
\* so `reject(this._handlePromiseError(reason))` rejects with undefined
_handlePromiseError(hasResponse, data, reason) ==
    <<Ev("log", IF hasResponse THEN data ELSE reason), Ev("reject", Undefined)>>

SyntaxError == <<"reason", "SyntaxError">>

\* the request of ping: axios.get(`${this._getUrl()}/ping`, {timeout, ...})
PingRequest(timeout) ==
    [url |-> _getUrl \o <<"/ping">>, method |-> "GET", timeout |-> timeout]

\* a comparison that ignores surrounding whitespace
PingResult_Trimmed(data) == trim(data) = trim(OkLiteral)

\* .then of ping: `response.data` is truthy and `response.data == 'Ok.\n'`
PingResult(data) == data # <<>> /\ data = OkLiteral

\* a .catch that swallows the failure and answers false
PingCatch_ResolveFalse(reason) == <<Ev("resolve", Bool(FALSE))>>

\* .catch of ping: reject(reason)
PingCatch(reason) == <<Ev("reject", reason)>>

\* which branch of the switch on options.format a query response takes
JsonBranch == options.format \in JsonFormats

\* --------------------------------------------------------------- state
NoCalls(ids) ==
    /\ pc = [c \in ids |-> "idle"]
    /\ kind = [c \in ids |-> "none"]
    /\ args = [c \in ids |-> NoArgs]
    /\ req = [c \in ids |-> <<>>]
    /\ resp = [c \in ids |-> NoResp]
    /\ pos = [c \in ids |-> 0]
    /\ parser = [c \in ids |-> NewParser]
    /\ err = [c \in ids |-> <<>>]
    /\ trace = [c \in ids |-> <<>>]

InitCalls(ids) ==
    /\ options \in Configs
    /\ ctor = Constructed(UserFor(options))
    /\ NoCalls(ids)

Init == InitCalls({1})

\* the shape of the state
TypeOK ==
    /\ options \in Configs
    /\ \A c \in Calls :
        /\ pc[c] \in {"idle", "thrown", "observable", "pending", "stream", "drain",
                       "done", "parse_error", "aborted", "crashed"}
        /\ kind[c] \in {"none", "query", "queryPromise", "insert", "insertPromise", "ping"}
        /\ args[c].query \in SqlTexts \cup {<<>>}
        /\ args[c].params \in QueryParams
        /\ args[c].timeout \in PingTimeouts
        /\ args[c].table \in TableTexts \cup {<<>>}
        /\ args[c].data \in DataInputs
        /\ Len(req[c]) \in 0..1
        /\ resp[c].status \in {"none", "ok", "http_error", "network_error"}
        /\ resp[c].ending \in {"open", "end", "abort"}
        /\ pos[c] \in 0..(MaxRows + 12)
        /\ parser[c].st \in {"top", "object", "value", "array", "error"}
        /\ Len(err[c]) <= 2 * MaxChunks
        /\ \A i \in 1..Len(trace[c]) :
              trace[c][i].t \in {"log", "next", "error", "complete", "resolve", "reject", "throw"}

Emit(c, events) == trace' = [trace EXCEPT ![c] = @ \o events]

\* the positions of a call that has not settled
Live == {"idle", "observable", "pending", "stream", "drain"}

\* the Parser emits 'error' and nothing listens on the pipeline: the emit
\* throws, an uncaught exception.  It ends the process, and with it every call
\* still under way (exits), unless the host application has installed an
\* 'uncaughtException' handler; call c itself gets nothing more either way
Unheard(c, exits) ==
    [d \in Calls |-> IF d = c THEN "parse_error"
                     ELSE IF exits /\ pc[d] \in Live THEN "crashed" ELSE pc[d]]

\* an Observable that issues its request when it is created
RequestsAtCall_Eager(r) == <<r>>

\* `return new Observable(subscriber => ...)`: the subscriber function is only
\* stored, no request is issued by the call
RequestsAtCall(r) == <<>>

\* ------------------------------------------------------------ the calls
\* query(query): _validateQuery, then the (cold) Observable is returned
Query(c) ==
    \E q \in SqlTexts, p \in QueryParams :
        /\ pc[c] = "idle"
        /\ kind' = [kind EXCEPT ![c] = "query"]
        /\ args' = [args EXCEPT ![c] = [NoArgs EXCEPT !.query = q, !.params = p]]
        /\ IF _validateQuery(q) # NoThrow
           THEN /\ pc' = [pc EXCEPT ![c] = "thrown"]
                /\ Emit(c, <<Ev("throw", _validateQuery(q))>>)
                /\ UNCHANGED req
           ELSE /\ pc' = [pc EXCEPT ![c] = "observable"]
                /\ req' = [req EXCEPT ![c] = @ \o RequestsAtCall(_getRequestOptions(q, p, FALSE))]
                /\ UNCHANGED trace
        /\ UNCHANGED <<ctor, options, resp, pos, parser, err>>

\* queryPromise(query): _validateQuery, then _queryPromise issues the request
QueryPromise(c) ==
    \E q \in SqlTexts, p \in QueryParams :
        /\ pc[c] = "idle"
        /\ kind' = [kind EXCEPT ![c] = "queryPromise"]
        /\ args' = [args EXCEPT ![c] = [NoArgs EXCEPT !.query = q, !.params = p]]
        /\ IF _validateQuery(q) # NoThrow
           THEN /\ pc' = [pc EXCEPT ![c] = "thrown"]
                /\ Emit(c, <<Ev("throw", _validateQuery(q))>>)
                /\ UNCHANGED <<options, req>>
           ELSE /\ pc' = [pc EXCEPT ![c] = "pending"]
                /\ req' = [req EXCEPT ![c] = Append(@, PromiseRequest(q, p))]
                /\ options' = OptionsAfterRequest(options)
                /\ UNCHANGED trace
        /\ UNCHANGED <<ctor, resp, pos, parser, err>>

\* insert(table, data): _validateInsert, then the (cold) Observable is returned
Insert(c) ==
    \E t \in TableTexts, d \in DataInputs :
        /\ pc[c] = "idle"
        /\ kind' = [kind EXCEPT ![c] = "insert"]
        /\ args' = [args EXCEPT ![c] = [NoArgs EXCEPT !.table = t, !.data = d]]
        /\ IF _validateInsert(t, d) # NoThrow
           THEN /\ pc' = [pc EXCEPT ![c] = "thrown"]
                /\ Emit(c, <<Ev("throw", _validateInsert(t, d))>>)
                /\ UNCHANGED req
           ELSE /\ pc' = [pc EXCEPT ![c] = "observable"]
                /\ req' = [req EXCEPT ![c] = @ \o RequestsAtCall(InsertRequest(t, d.items))]
                /\ UNCHANGED trace
        /\ UNCHANGED <<ctor, options, resp, pos, parser, err>>

\* insertPromise(table, data): _validateInsert, then insert(...).subscribe(...)
InsertPromise(c) ==
    \E t \in TableTexts, d \in DataInputs :
        /\ pc[c] = "idle"
        /\ kind' = [kind EXCEPT ![c] = "insertPromise"]
        /\ args' = [args EXCEPT ![c] = [NoArgs EXCEPT !.table = t, !.data = d]]
        /\ IF _validateInsert(t, d) # NoThrow
           THEN /\ pc' = [pc EXCEPT ![c] = "thrown"]
                /\ Emit(c, <<Ev("throw", _validateInsert(t, d))>>)
                /\ UNCHANGED <<options, req>>
           ELSE /\ pc' = [pc EXCEPT ![c] = "pending"]
                /\ req' = [req EXCEPT ![c] = Append(@, InsertRequest(t, d.items))]
                /\ options' = OptionsAfterRequest(options)
                /\ UNCHANGED trace
        /\ UNCHANGED <<ctor, resp, pos, parser, err>>

\* the descriptor the subscriber function of query, or of insert, builds
Descriptor(k, a) ==
    IF k = "query"
    THEN _getRequestOptions(a.query, a.params, FALSE)
    ELSE InsertRequest(a.table, a.data.items)

\* subscribe on the Observable of query or insert: the request is issued
Subscribe(c) ==
    /\ pc[c] = "observable"
    /\ pc' = [pc EXCEPT ![c] = "pending"]
    /\ req' = [req EXCEPT ![c] = Append(@, Descriptor(kind[c], args[c]))]
    /\ options' = OptionsAfterRequest(options)
    /\ UNCHANGED <<ctor, kind, args, resp, pos, parser, err, trace>>

\* ------------------------------------------------- the success response
EmptyEnvelope == NoResp.env

\* .then of _queryObservable and of insert: the listeners are attached
StreamResponse(c) ==
    \E e \in WireEnvelopes :
        /\ pc[c] = "pending"
        /\ kind[c] \in PushKinds
        /\ kind[c] \in InsertKinds => e = EmptyEnvelope
        /\ resp' = [resp EXCEPT ![c] = [NoResp EXCEPT !.status = "ok", !.env = e]]
        /\ pc' = [pc EXCEPT ![c] = "stream"]
        /\ pos' = [pos EXCEPT ![c] = 0]
        /\ parser' = [parser EXCEPT ![c] = NewParser]
        /\ UNCHANGED <<ctor, options, kind, args, req, err, trace>>

\* a 'data' event of the response stream.  query, JSON formats: the token goes
\* through the pipeline, a picked array element is handed to subscriber.next and
\* a token the Parser rejects makes it emit 'error', which nobody listens to.
\* query, other formats: subscriber.next(chunk).  insert: nothing is done.
StreamData(c) ==
    \E tok \in IF kind[c] = "query" THEN NextOnWire(resp[c].env, resp[c].tokens)
                ELSE IF pos[c] < MaxChunks THEN RawChunks ELSE {} :
        /\ pc[c] = "stream"
        /\ resp' = [resp EXCEPT ![c].tokens = Append(@, tok)]
        /\ pos' = [pos EXCEPT ![c] = @ + 1]
        /\ IF kind[c] = "query" /\ JsonBranch
           THEN /\ parser' = [parser EXCEPT ![c] = ParserStep(@, tok)]
                /\ \E exits \in BOOLEAN :
                        pc' = IF ParserStep(parser[c], tok).st = "error"
                              THEN Unheard(c, exits) ELSE pc
                /\ Emit(c, RowsOnToken(parser[c], tok, resp[c].tokens))
           ELSE /\ IF kind[c] = "query"
                   THEN Emit(c, <<Ev("next", Txt(<<tok>>))>>)
                   ELSE Emit(c, InsertOnData(tok))
                /\ UNCHANGED <<parser, pc>>
        /\ UNCHANGED <<ctor, options, kind, args, req, err>>

\* the 'end' event of the response stream: the pipeline flushes and ends, and
\* its 'end' handler calls subscriber.complete(); a value left open makes the
\* Parser emit 'error' instead
StreamEnd(c) ==
    /\ pc[c] = "stream"
    /\ resp' = [resp EXCEPT ![c].ending = "end"]
    /\ IF kind[c] = "query" /\ JsonBranch /\ ~FlushOk(parser[c])
       THEN /\ \E exits \in BOOLEAN : pc' = Unheard(c, exits)
            /\ UNCHANGED trace
       ELSE /\ pc' = [pc EXCEPT ![c] = "done"]
            /\ Emit(c, Complete(kind[c]))
    /\ UNCHANGED <<ctor, options, kind, args, req, pos, parser, err>>

\* the connection closes before the body ends: no 'end' event ever comes
StreamAbort(c) ==
    /\ pc[c] = "stream"
    /\ resp' = [resp EXCEPT ![c].ending = "abort"]
    /\ pc' = [pc EXCEPT ![c] = "aborted"]
    /\ UNCHANGED <<ctor, options, kind, args, req, pos, parser, err, trace>>

\* .then of _queryPromise: the whole text is there; JSON.parse(data).data
PromiseResponse(c) ==
    \E b \in SuccessBodies :
        /\ pc[c] = "pending"
        /\ kind[c] = "queryPromise"
        /\ resp' = [resp EXCEPT ![c] =
                        [NoResp EXCEPT !.status = "ok", !.env = b.env, !.tokens = b.tokens,
                                       !.ending = "end"]]
        /\ pc' = [pc EXCEPT ![c] = "done"]
        /\ IF JsonBranch
           THEN IF JsonParseOk(b.tokens)
                THEN Emit(c, <<Ev("resolve", JsonData(b.tokens))>>)
                ELSE Emit(c, _handlePromiseError(FALSE, Undefined, SyntaxError))
           ELSE Emit(c, <<Ev("resolve", Txt(b.tokens))>>)
        /\ UNCHANGED <<ctor, options, kind, args, req, pos, parser, err>>

\* --------------------------------------------------- the failed request
\* .catch with reason.response: _handleObservableError attaches its listeners
ErrorResponse(c) ==
    /\ pc[c] = "pending"
    /\ kind[c] \in PushKinds
    /\ resp' = [resp EXCEPT ![c] = [NoResp EXCEPT !.status = "http_error"]]
    /\ pc' = [pc EXCEPT ![c] = "drain"]
    /\ pos' = [pos EXCEPT ![c] = 0]
    /\ err' = [err EXCEPT ![ErrCell(c)] = <<>>]
    /\ req' = [req EXCEPT ![c] = RequestsAfterFailure(@)]
    /\ UNCHANGED <<ctor, options, kind, args, parser, trace>>

\* 'data' of the error body: err += chunk.toString('utf8')
DrainData(c) ==
    \E chunk \in ErrChunkTexts :
        /\ pc[c] = "drain"
        /\ pos[c] < MaxChunks
        /\ resp' = [resp EXCEPT ![c].chunks = Append(@, chunk)]
        /\ pos' = [pos EXCEPT ![c] = @ + 1]
        /\ err' = [err EXCEPT ![ErrCell(c)] = @ \o chunk]
        /\ Emit(c, OnErrorData(kind[c], err[ErrCell(c)] \o chunk))
        /\ UNCHANGED <<ctor, options, pc, kind, args, req, parser>>

\* 'end' of the error body: log, deliver, err = ''
DrainEnd(c) ==
    /\ pc[c] = "drain"
    /\ resp' = [resp EXCEPT ![c].ending = "end"]
    /\ Emit(c, SurfaceError(kind[c], ErrorText(err[ErrCell(c)])))
    /\ err' = [err EXCEPT ![ErrCell(c)] = <<>>]
    /\ pc' = [pc EXCEPT ![c] = "done"]
    /\ UNCHANGED <<ctor, options, kind, args, req, pos, parser>>

\* the connection closes before the error body ends
DrainAbort(c) ==
    /\ pc[c] = "drain"
    /\ resp' = [resp EXCEPT ![c].ending = "abort"]
    /\ pc' = [pc EXCEPT ![c] = "aborted"]
    /\ UNCHANGED <<ctor, options, kind, args, req, pos, parser, err, trace>>

\* .catch without reason.response: logged and delivered at once
NetworkError(c) ==
    \E reason \in Reasons :
        /\ pc[c] = "pending"
        /\ kind[c] \in PushKinds
        /\ resp' = [resp EXCEPT ![c] = [NoResp EXCEPT !.status = "network_error", !.reason = reason]]
        /\ Emit(c, SurfaceError(kind[c], FailureValue(reason)))
        /\ pc' = [pc EXCEPT ![c] = "done"]
        /\ req' = [req EXCEPT ![c] = RequestsAfterFailure(@)]
        /\ UNCHANGED <<ctor, options, kind, args, pos, parser, err>>

\* .catch of _queryPromise with reason.response: the body is the whole text
PromiseErrorResponse(c) ==
    \E body \in ErrorBodies :
        /\ pc[c] = "pending"
        /\ kind[c] = "queryPromise"
        /\ resp' = [resp EXCEPT ![c] = [NoResp EXCEPT !.status = "http_error", !.chunks = body, !.ending = "end"]]
        /\ Emit(c, _handlePromiseError(TRUE, Txt(join(body, <<>>)), Undefined))
        /\ pc' = [pc EXCEPT ![c] = "done"]
        /\ req' = [req EXCEPT ![c] = RequestsAfterFailure(@)]
        /\ UNCHANGED <<ctor, options, kind, args, pos, parser, err>>

\* .catch of _queryPromise without reason.response
PromiseNetworkError(c) ==
    \E reason \in Reasons :
        /\ pc[c] = "pending"
        /\ kind[c] = "queryPromise"
        /\ resp' = [resp EXCEPT ![c] = [NoResp EXCEPT !.status = "network_error", !.reason = reason]]
        /\ Emit(c, _handlePromiseError(FALSE, Undefined, reason))
        /\ pc' = [pc EXCEPT ![c] = "done"]
        /\ req' = [req EXCEPT ![c] = RequestsAfterFailure(@)]
        /\ UNCHANGED <<ctor, options, kind, args, pos, parser, err>>

\* ----------------------------------------------------------------- ping
\* ping(timeout): the GET request is issued at once, nothing is validated
Ping(c) ==
    \E t \in PingTimeouts :
        /\ pc[c] = "idle"
        /\ kind' = [kind EXCEPT ![c] = "ping"]
        /\ args' = [args EXCEPT ![c] = [NoArgs EXCEPT !.timeout = t]]
        /\ req' = [req EXCEPT ![c] = Append(@, PingRequest(t))]
        /\ pc' = [pc EXCEPT ![c] = "pending"]
        /\ options' = OptionsAfterRequest(options)
        /\ UNCHANGED <<ctor, resp, pos, parser, err, trace>>

\* .then of ping: resolve(true) for the literal, resolve(false) otherwise
PingResponse(c) ==
    \E body \in PingBodies :
        /\ pc[c] = "pending"
        /\ kind[c] = "ping"
        /\ resp' = [resp EXCEPT ![c] =
                        [NoResp EXCEPT !.status = "ok", !.tokens = body, !.ending = "end"]]
        /\ Emit(c, <<Ev("resolve", Bool(PingResult(body)))>>)
        /\ pc' = [pc EXCEPT ![c] = "done"]
        /\ UNCHANGED <<ctor, options, kind, args, req, pos, parser, err>>

\* .catch of ping, a response with a non-2xx status
PingErrorResponse(c) ==
    \E body \in PingBodies :
        /\ pc[c] = "pending"
        /\ kind[c] = "ping"
        /\ resp' = [resp EXCEPT ![c] =
                        [NoResp EXCEPT !.status = "http_error", !.tokens = body,
                                       !.ending = "end", !.reason = BadStatus]]
        /\ Emit(c, PingCatch(BadStatus))
        /\ pc' = [pc EXCEPT ![c] = "done"]
        /\ req' = [req EXCEPT ![c] = RequestsAfterFailure(@)]
        /\ UNCHANGED <<ctor, options, kind, args, pos, parser, err>>

\* .catch of ping, no response: connection failure, or the timeout has passed
PingNetworkError(c) ==
    \E reason \in Reasons \cup (IF args[c].timeout > 0 THEN {TimeoutExceeded} ELSE {}) :
        /\ pc[c] = "pending"
        /\ kind[c] = "ping"
        /\ resp' = [resp EXCEPT ![c] = [NoResp EXCEPT !.status = "network_error", !.reason = reason]]
        /\ Emit(c, PingCatch(reason))
        /\ pc' = [pc EXCEPT ![c] = "done"]
        /\ req' = [req EXCEPT ![c] = RequestsAfterFailure(@)]
        /\ UNCHANGED <<ctor, options, kind, args, pos, parser, err>>

\* ---------------------------------------------------------- construction
Clients == 1..MaxClients

\* no client exists yet
InitCtor ==
    /\ ctor = [passed |-> [k \in Clients |-> NotConstructed],
               clients |-> [k \in Clients |-> NotConstructed],
               defaults |-> ClassDefaults]
    /\ options = Effective(ClassDefaults)
    /\ NoCalls({1})

\* new ClickHouseClient(u): client k is constructed from the options object u
Construct(k) ==
    \E u \in UserOptions \cup {NotPassed} :
        /\ ctor.clients[k] = NotConstructed
        /\ ctor' = [passed |-> [ctor.passed EXCEPT ![k] = u],
                    clients |-> [ctor.clients EXCEPT ![k] = constructor(ctor.defaults, u)],
                    defaults |-> DefaultsAfter(ctor.defaults, u)]
        /\ UNCHANGED <<options, pc, kind, args, req, resp, pos, parser, err, trace>>

NextCtor == \E k \in Clients : Construct(k)

SpecCtor == InitCtor /\ [][NextCtor]_vars

\* ------------------------------------------------------- specification
Next ==
    \/ \E c \in Calls : Query(c)
    \/ \E c \in Calls : QueryPromise(c)
    \/ \E c \in Calls : Insert(c)
    \/ \E c \in Calls : InsertPromise(c)
    \/ \E c \in Calls : Subscribe(c)
    \/ \E c \in Calls : StreamResponse(c)
    \/ \E c \in Calls : StreamData(c)
    \/ \E c \in Calls : StreamEnd(c)
    \/ \E c \in Calls : StreamAbort(c)
    \/ \E c \in Calls : PromiseResponse(c)
    \/ \E c \in Calls : ErrorResponse(c)
    \/ \E c \in Calls : DrainData(c)
    \/ \E c \in Calls : DrainEnd(c)
    \/ \E c \in Calls : DrainAbort(c)
    \/ \E c \in Calls : NetworkError(c)
    \/ \E c \in Calls : PromiseErrorResponse(c)
    \/ \E c \in Calls : PromiseNetworkError(c)
    \/ \E c \in Calls : Ping(c)
    \/ \E c \in Calls : PingResponse(c)
    \/ \E c \in Calls : PingErrorResponse(c)
    \/ \E c \in Calls : PingNetworkError(c)

Spec == Init /\ [][Next]_vars

\* ------------------------------------------------ the decoding pipeline
\* The response stream and the stages piped behind it, step by step: what has
\* been received (resp.tokens) and how much of it has gone through the pipeline
\* (pos) are told apart.
PipeArgs == {NoArgs, [NoArgs EXCEPT !.query = <<"S", " ">>]}

PipeInputs == \A c \in DOMAIN pc : args[c] \in PipeArgs

InitPipe ==
    /\ options \in Configs
    /\ options.format = "JSON"
    /\ options.httpConfig.compression = "NONE"
    /\ ctor = Constructed(UserFor(options))
    /\ NoCalls({1})

\* 'data' of the response stream: the chunk is written into the Parser (the
\* body is followed up to its first malformed byte)
Receive(c) ==
    \E tok \in NextOnWire(resp[c].env, resp[c].tokens) :
        /\ pc[c] = "stream"
        /\ resp[c].ending = "open"
        /\ \A i \in 1..Len(resp[c].tokens) : resp[c].tokens[i] # "bad"
        /\ resp' = [resp EXCEPT ![c].tokens = Append(@, tok)]
        /\ UNCHANGED <<ctor, options, pc, kind, args, req, pos, parser, err, trace>>

\* the stages take the next token through: Parser, Pick, StreamArray, and the
\* 'data' listener of the pipeline
Transform(c) ==
    /\ pc[c] = "stream"
    /\ pos[c] < Len(resp[c].tokens)
    /\ LET tok == resp[c].tokens[pos[c] + 1] IN
        /\ pos' = [pos EXCEPT ![c] = @ + 1]
        /\ parser' = [parser EXCEPT ![c] = ParserStep(@, tok)]
        /\ \E exits \in BOOLEAN :
                pc' = IF ParserStep(parser[c], tok).st = "error"
                      THEN Unheard(c, exits) ELSE pc
        /\ Emit(c, RowsOnToken(parser[c], tok, SubSeq(resp[c].tokens, 1, pos[c])))
    /\ UNCHANGED <<ctor, options, kind, args, req, resp, err>>

\* 'end' of the response stream: pipe calls end() on the Parser
TransportEnd(c) ==
    /\ pc[c] = "stream"
    /\ resp[c].ending = "open"
    /\ resp' = [resp EXCEPT ![c].ending = "end"]
    /\ UNCHANGED <<ctor, options, pc, kind, args, req, pos, parser, err, trace>>

\* the connection closes before the body ends: end() is never called
TransportAbort(c) ==
    /\ pc[c] = "stream"
    /\ resp[c].ending = "open"
    /\ resp' = [resp EXCEPT ![c].ending = "abort"]
    /\ UNCHANGED <<ctor, options, pc, kind, args, req, pos, parser, err, trace>>

\* the Parser flushes and the stages end one after the other; the 'end'
\* listener of the pipeline calls subscriber.complete()
PipelineEnd(c) ==
    /\ pc[c] = "stream"
    /\ resp[c].ending = "end"
    /\ MayEnd(Len(resp[c].tokens), pos[c])
    /\ IF FlushOk(parser[c])
       THEN /\ pc' = [pc EXCEPT ![c] = "done"]
            /\ Emit(c, Complete(kind[c]))
       ELSE /\ \E exits \in BOOLEAN : pc' = Unheard(c, exits)
            /\ UNCHANGED trace
    /\ UNCHANGED <<ctor, options, kind, args, req, resp, pos, parser, err>>

NextPipe ==
    \/ \E c \in Calls : Query(c) /\ PipeInputs'
    \/ \E c \in Calls : Subscribe(c)
    \/ \E c \in Calls : StreamResponse(c)
    \/ \E c \in Calls : Receive(c)
    \/ \E c \in Calls : Transform(c)
    \/ \E c \in Calls : TransportEnd(c)
    \/ \E c \in Calls : TransportAbort(c)
    \/ \E c \in Calls : PipelineEnd(c)

\* the stages run whenever they have input: a token written into the pipeline
\* is taken through, and a pipeline that can end does
SpecPipe ==
    /\ InitPipe
    /\ [][NextPipe]_vars
    /\ WF_vars(\E c \in {1} : Transform(c))
    /\ WF_vars(\E c \in {1} : PipelineEnd(c))

\* ------------------------------------------------------ concurrent calls
\* two calls under way on one client, in every interleaving of their steps
ConcCalls == {1, 2}

\* the arguments, and the responses, the two calls are followed with
ConcArgs ==
    {NoArgs,
     [NoArgs EXCEPT !.query = <<"S", " ">>],
     [NoArgs EXCEPT !.table = <<"t">>, !.data = [isArray |-> TRUE, items |-> <<"d1">>]]}

ConcEnvelopes ==
    {EmptyEnvelope} \cup {[EmptyEnvelope EXCEPT !.hasData = TRUE, !.rows = <<r>>] : r \in Rows}

ConcInputs ==
    \A c \in DOMAIN pc :
        /\ args[c] \in ConcArgs
        /\ resp[c].env \in ConcEnvelopes
        /\ (kind[c] = "queryPromise" /\ resp[c].status = "ok")
                => (resp[c].env.hasData /\ resp[c].tokens = Encode(resp[c].env))
        /\ kind[c] = "ping" => resp[c].tokens \in {<<>>, OkLiteral}
        /\ \A i \in 1..Len(resp[c].chunks) : resp[c].chunks[i] \in {<<"E">>, <<"r", "\n">>}
        /\ resp[c].reason \in {Undefined, <<"reason", "ECONNREFUSED">>, BadStatus}

InitConc ==
    /\ options \in Configs
    /\ options.format = "JSON"
    /\ options.httpConfig.compression = "NONE"
    /\ ctor = Constructed(UserFor(options))
    /\ NoCalls(ConcCalls)

\* one more subscribe on the Observable that call c returned: the subscriber
\* function runs again, for the subscription d
Resubscribe(c, d) ==
    /\ c # d
    /\ kind[c] \in {"query", "insert"}
    /\ pc[c] \notin {"idle", "thrown", "crashed"}
    /\ pc[d] = "idle"
    /\ kind' = [kind EXCEPT ![d] = kind[c]]
    /\ args' = [args EXCEPT ![d] = args[c]]
    /\ pc' = [pc EXCEPT ![d] = "pending"]
    /\ req' = [req EXCEPT ![d] = Append(@, Descriptor(kind[c], args[c]))]
    /\ options' = OptionsAfterRequest(options)
    /\ UNCHANGED <<ctor, resp, pos, parser, err, trace>>

NextConc ==
    \/ \E c \in Calls : Query(c) /\ ConcInputs'
    \/ \E c \in Calls : QueryPromise(c) /\ ConcInputs'
    \/ \E c \in Calls : Insert(c) /\ ConcInputs'
    \/ \E c \in Calls : InsertPromise(c) /\ ConcInputs'
    \/ \E c \in Calls : Subscribe(c) /\ ConcInputs'
    \/ \E c, d \in Calls : Resubscribe(c, d) /\ ConcInputs'
    \/ \E c \in Calls : StreamResponse(c) /\ ConcInputs'
    \/ \E c \in Calls : StreamData(c) /\ ConcInputs'
    \/ \E c \in Calls : StreamEnd(c) /\ ConcInputs'
    \/ \E c \in Calls : StreamAbort(c) /\ ConcInputs'
    \/ \E c \in Calls : PromiseResponse(c) /\ ConcInputs'
    \/ \E c \in Calls : ErrorResponse(c) /\ ConcInputs'
    \/ \E c \in Calls : DrainData(c) /\ ConcInputs'
    \/ \E c \in Calls : DrainEnd(c) /\ ConcInputs'
    \/ \E c \in Calls : DrainAbort(c) /\ ConcInputs'
    \/ \E c \in Calls : NetworkError(c) /\ ConcInputs'
    \/ \E c \in Calls : PromiseErrorResponse(c) /\ ConcInputs'
    \/ \E c \in Calls : PromiseNetworkError(c) /\ ConcInputs'
    \/ \E c \in Calls : Ping(c) /\ ConcInputs'
    \/ \E c \in Calls : PingResponse(c) /\ ConcInputs'
    \/ \E c \in Calls : PingErrorResponse(c) /\ ConcInputs'
    \/ \E c \in Calls : PingNetworkError(c) /\ ConcInputs'

SpecConc == InitConc /\ [][NextConc]_vars

\* ---------------------------------------------------------- observations
Notes(c) == SelectSeq(trace[c], LAMBDA e : e.t \in {"next", "error", "complete"})

Count(c, t) == Len(SelectSeq(trace[c], LAMBDA e : e.t = t))

NextValues(c) ==
    LET n == SelectSeq(trace[c], LAMBDA e : e.t = "next") IN [i \in 1..Len(n) |-> n[i].v]

\* no event of call c is outstanding any more
Settled(c) == pc[c] \in {"done", "parse_error", "aborted"}

IsPrefix(s, t) == Len(s) <= Len(t) /\ s = SubSeq(t, 1, Len(s))

\* the rows the server put into the envelope's `data` array
RowsOf(e) == [i \in 1..Len(e.rows) |-> Row(e.rows[i])]

\* the whole error body as the server sent it
BodyText(c) == join(resp[c].chunks, <<>>)

AllBlank(text) == \A i \in 1..Len(text) : text[i] \in WhiteSpace

\* what the push shape delivers for a whole body, and whether it completes
RECURSIVE PushRows(_, _)
PushRows(p, toks) ==
    IF toks = <<>> \/ p.st = "error" THEN <<>>
    ELSE (IF EmitsRow(p, Head(toks)) THEN <<Head(toks)>> ELSE <<>>)
            \o PushRows(ParserStep(p, Head(toks)), Tail(toks))

PushCompletes(toks) == FlushOk(ParseAll(NewParser, toks))

\* ------------------------------------------------------------------ C1
\* C1: every subscribed query call ends with a terminal notification: once no
\* event of the call is outstanding, the subscriber has received complete or error.
C1_QueryEndsWithTerminal ==
    \A c \in Calls :
        (kind[c] = "query" /\ req[c] # <<>> /\ Settled(c))
            => (Count(c, "complete") + Count(c, "error") >= 1)

\* ------------------------------------------------------------------ C2
\* C2: a subscriber never receives both complete and error, never a next after
\* complete or error, and never complete after error.
C2_TerminalIsLast ==
    \A c \in Calls :
        LET n == Notes(c) IN
        \A i, j \in 1..Len(n) :
            i < j => /\ (n[i].t \in {"error", "complete"} => n[j].t # "next")
                     /\ ~(n[i].t = "error" /\ n[j].t = "complete")
                     /\ ~(n[i].t = "complete" /\ n[j].t = "error")

C2_Witness ==
    \E c \in Calls :
        /\ kind[c] = "query" /\ pc[c] = "done"
        /\ Len(Notes(c)) = 3 /\ Notes(c)[3].t = "complete"

\* ------------------------------------------------------------------ C3
\* C3: for a successful JSON-rows response the values delivered through next are
\* the elements of the envelope's `data` array, in order, nothing else; complete
\* comes once, after the last next.
C3_RowsAreDataArray ==
    \A c \in Calls :
        (kind[c] = "query" /\ resp[c].status = "ok")
            => /\ IsPrefix(NextValues(c), RowsOf(resp[c].env))
               /\ (pc[c] = "done" /\ resp[c].tokens = Encode(resp[c].env))
                    => /\ NextValues(c) = RowsOf(resp[c].env)
                       /\ Notes(c) = [i \in 1..Len(resp[c].env.rows) |->
                                         Ev("next", Row(resp[c].env.rows[i]))]
                                        \o <<Ev("complete", Nothing)>>

C3_Witness ==
    \E c \in Calls :
        /\ kind[c] = "query" /\ pc[c] = "done" /\ resp[c].status = "ok"
        /\ resp[c].tokens = Encode(resp[c].env)
        /\ resp[c].env.meta /\ resp[c].env.stats
        /\ resp[c].env.rows = <<"r2", "r1">>

\* ------------------------------------------------------------------ C4
\* C4: for the same response, the list queryPromise resolves to is the sequence
\* of rows query delivers before complete.
C4_PromiseEqualsPush ==
    \A c \in Calls :
        (kind[c] = "queryPromise" /\ pc[c] = "done" /\ resp[c].status = "ok"
            /\ PushCompletes(resp[c].tokens))
            => trace[c] = <<Ev("resolve", List(PushRows(NewParser, resp[c].tokens)))>>

\* ------------------------------------------------------------------ C5
\* C5: a failed queryPromise rejects with the value the push shape delivers on
\* its error channel: the trimmed body text of a non-2xx response, the failure
\* object of a transport failure.
C5_RejectsWithDeliveredError ==
    \A c \in Calls :
        (kind[c] = "queryPromise" /\ pc[c] = "done")
            => /\ resp[c].status = "http_error"
                    => Ev("reject", Txt(trim(BodyText(c)))) = trace[c][Len(trace[c])]
               /\ resp[c].status = "network_error"
                    => Ev("reject", resp[c].reason) = trace[c][Len(trace[c])]

\* ------------------------------------------------------------------ C6
\* C6: on a non-2xx response with a body, query and insert deliver the
\* concatenation of its chunks, trimmed, on the error channel: once, and no row.
C6_ErrorIsTrimmedBody ==
    \A c \in Calls :
        (kind[c] \in PushKinds /\ resp[c].status = "http_error")
            => /\ Notes(c) \in {<<>>, <<Ev("error", Txt(trim(BodyText(c))))>>}
               /\ pc[c] = "done" => Notes(c) = <<Ev("error", Txt(trim(BodyText(c))))>>

C6_Witness ==
    \E c \in Calls :
        /\ kind[c] = "insert" /\ pc[c] = "done" /\ resp[c].status = "http_error"
        /\ Len(resp[c].chunks) = 2
        /\ resp[c].chunks[1] # resp[c].chunks[2]
        /\ trim(BodyText(c)) # BodyText(c)
        /\ trim(BodyText(c)) # <<>>

\* ------------------------------------------------------------------ C7
\* C7: a failure without a response body is logged and the same object is
\* delivered on the error channel at once, in the step in which it arrives.
C7_FailureDeliveredAsIs ==
    \A c \in Calls :
        (kind[c] \in PushKinds /\ resp[c].status = "network_error")
            => /\ pc[c] = "done"
               /\ SubSeq(trace[c], 1, 2)
                    = <<Ev("log", resp[c].reason), Ev("error", resp[c].reason)>>
               /\ Notes(c) = <<Ev("error", resp[c].reason)>>

C7_Witness ==
    \E c \in Calls :
        /\ kind[c] = "query" /\ resp[c].status = "network_error"
        /\ resp[c].reason = <<"reason", "ETIMEDOUT">>

\* ------------------------------------------------------------------ C8
\* C8: a malformed success body, or one that closes prematurely while rows are
\* decoded, ends in an error notification (queryPromise: a rejection), never in
\* a normal completion and never in silence.
DecodeFailure(c) ==
    /\ resp[c].status = "ok"
    /\ resp[c].tokens # <<>>
    /\ resp[c].tokens # Encode(resp[c].env) \/ resp[c].ending = "abort"

C8_DecodeFailureIsError ==
    \A c \in Calls :
        (Settled(c) /\ DecodeFailure(c))
            => /\ kind[c] = "query" => (Count(c, "error") = 1 /\ Count(c, "complete") = 0)
               /\ kind[c] = "queryPromise"
                    => (Count(c, "reject") = 1 /\ Count(c, "resolve") = 0)

\* ------------------------------------------------------------------ C9
\* C9: every asynchronous error (server, transport, decode), in the push and in
\* the promise shape, is logged exactly once, before it is delivered.
AsyncError(c) ==
    \/ pc[c] = "done" /\ resp[c].status \in {"http_error", "network_error"}
    \/ pc[c] = "parse_error"
    \/ kind[c] = "queryPromise" /\ pc[c] = "done" /\ resp[c].status = "ok"
            /\ ~JsonParseOk(resp[c].tokens)

C9_LoggedOnceBeforeDelivery ==
    \A c \in Calls :
        AsyncError(c)
            => /\ Count(c, "log") = 1
               /\ trace[c][1].t = "log"

\* ----------------------------------------------------------------- C10
\* C10: query and queryPromise with an empty or whitespace-only SQL text throw
\* synchronously and issue no HTTP request.
C10_BlankQueryThrows ==
    \A c \in Calls :
        (kind[c] \in {"query", "queryPromise"} /\ AllBlank(args[c].query))
            => /\ pc[c] = "thrown"
               /\ req[c] = <<>>
               /\ Len(trace[c]) = 1 /\ trace[c][1].t = "throw"

C10_Witness ==
    \E c \in Calls :
        /\ kind[c] = "queryPromise" /\ pc[c] = "thrown"
        /\ args[c].query = <<"\n", " ">>
        /\ options.format = "JSON"

\* ----------------------------------------------------------------- C11
\* C11: insert and insertPromise with a missing, empty or whitespace-only table
\* name, with data that is not an array, or with an empty array throw
\* synchronously and issue no HTTP request; with a non-empty table name and a
\* non-empty array the call does not throw.
C11_InvalidInsertThrows ==
    \A c \in Calls :
        kind[c] \in InsertKinds
            => IF AllBlank(args[c].table) \/ ~args[c].data.isArray
                    \/ args[c].data.items = <<>>
               THEN /\ pc[c] = "thrown"
                    /\ req[c] = <<>>
                    /\ Len(trace[c]) = 1 /\ trace[c][1].t = "throw"
               ELSE /\ pc[c] # "thrown"
                    /\ Count(c, "throw") = 0

C11_Witness ==
    \E c \in Calls :
        /\ kind[c] = "insertPromise" /\ pc[c] = "thrown"
        /\ args[c].table = <<"t">>
        /\ args[c].data = [isArray |-> TRUE, items |-> <<>>]

C13_InsertNeverNext ==
    \A c \in Calls :
        kind[c] \in InsertKinds
            => /\ Count(c, "next") = 0
               /\ Len(Notes(c)) <= 1
               /\ Count(c, "complete") = 1
                    => (resp[c].status = "ok" /\ resp[c].ending = "end")
               /\ (pc[c] = "done" /\ resp[c].status = "ok")
                    => Notes(c) = <<Ev("complete", Nothing)>>

C13_Witness ==
    \E c \in Calls :
        /\ kind[c] = "insert" /\ pc[c] = "done" /\ resp[c].status = "ok"
        /\ Len(resp[c].tokens) = MaxChunks
        /\ Notes(c) = <<Ev("complete", Nothing)>>

\* ----------------------------------------------------------------- C14
\* C14: insertPromise of a non-empty batch ends settled, resolved or rejected;
\* it resolves only if the request sent carries every record of the batch and the
\* success response ended; it rejects with the trimmed error text of the server
\* or with the transport failure.
SerializedBatch(items) == join([i \in 1..Len(items) |-> Stringify(items[i])], <<"\n">>)

\* the body ends with the records of the batch, one per line, in order
CarriesBatch(body, items) ==
    \E k \in 0..Len(body) : SubSeq(body, k + 1, Len(body)) = SerializedBatch(items)

C14_InsertPromiseSettles ==
    \A c \in Calls :
        (kind[c] = "insertPromise" /\ req[c] # <<>>)
            => /\ Count(c, "resolve") + Count(c, "reject") <= 1
               /\ Settled(c) => Count(c, "resolve") + Count(c, "reject") = 1
               /\ Count(c, "resolve") = 1
                    => /\ resp[c].status = "ok" /\ resp[c].ending = "end"
                       /\ CarriesBatch(req[c][1].data, args[c].data.items)
               /\ Count(c, "reject") = 1
                    => \/ /\ resp[c].status = "http_error"
                          /\ trace[c][Len(trace[c])] = Ev("reject", Txt(trim(BodyText(c))))
                       \/ /\ resp[c].status = "network_error"
                          /\ trace[c][Len(trace[c])] = Ev("reject", resp[c].reason)

PingSettlesOnce(c) ==
    /\ Count(c, "resolve") + Count(c, "reject") <= 1
    /\ resp[c].status # "none" => Count(c, "resolve") + Count(c, "reject") = 1

ParamEntries(r) == SelectSeq(QueryString(r), LAMBDA e : e.key[1] = "param_")

C17_ParamsBecomeEntries ==
    \A c \in Calls :
        (kind[c] \in {"query", "queryPromise"} /\ req[c] # <<>>)
            => LET r == req[c][1]
                   given == args[c].params
               IN /\ \A i \in 1..Len(given) :
                        Cardinality({j \in 1..Len(QueryString(r)) :
                                        QueryString(r)[j].key = <<"param_", given[i].key>>}) = 1
                  /\ \A i \in 1..Len(given) :
                        \E j \in 1..Len(QueryString(r)) :
                            QueryString(r)[j] = [key |-> <<"param_", given[i].key>>,
                                                 value |-> given[i].value.text]
                  /\ Len(ParamEntries(r)) = Len(given)
                  /\ \A j \in 1..Len(QueryString(r)) :
                        QueryString(r)[j].key \in
                            {<<"database">>} \cup {<<"param_", given[i].key>> : i \in 1..Len(given)}
                  /\ r.data = trimEnd(args[c].query) \o <<" FORMAT ", options.format>>

C17_Witness ==
    \E c \in Calls :
        /\ kind[c] = "query" /\ req[c] # <<>>
        /\ Len(args[c].params) = 2
        /\ Len(ParamEntries(req[c][1])) = 2

\* ----------------------------------------------------------------- C18
\* C18: every query or insert request carries, when the configured compression is
\* GZIP, DEFLATE or BROTLI, the entry enable_http_compression=1 in its query string
\* and the Accept-Encoding header gzip, deflate or br; when it is NONE, neither.
HasCompressionEntry(r) ==
    \E j \in 1..Len(QueryString(r)) :
        QueryString(r)[j] = [key |-> <<"enable_http_compression">>, value |-> "1"]

EncodingOf(compression) ==
    CASE compression = "GZIP" -> "gzip"
      [] compression = "DEFLATE" -> "deflate"
      [] compression = "BROTLI" -> "br"
      [] OTHER -> "none"

C18_CompressionNegotiated ==
    \A c \in Calls :
        (kind[c] \in {"query", "queryPromise", "insert", "insertPromise"} /\ req[c] # <<>>)
            => LET r == req[c][1] IN
               IF options.httpConfig.compression = "NONE"
               THEN ~HasCompressionEntry(r) /\ r.headers = {}
               ELSE /\ HasCompressionEntry(r)
                    /\ r.headers = {<<"Accept-Encoding",
                                      EncodingOf(options.httpConfig.compression)>>}

\* ----------------------------------------------------------------- C19
\* C19: the SQL text sent for a query is the caller's SQL without its trailing
\* whitespace, followed by exactly one " FORMAT <configured format>" directive;
\* the SQL text sent for an insert never receives that directive from the request
\* builder and carries insert's own directive only: no statement is sent with
\* two FORMAT directives or with none.
Directives(text) ==
    Cardinality({i \in 1..Len(text) : text[i] \in {" FORMAT ", " FORMAT JSONEachRow "}})

C19_OneFormatDirective ==
    \A c \in Calls :
        (kind[c] \in {"query", "queryPromise", "insert", "insertPromise"} /\ req[c] # <<>>)
            => LET r == req[c][1] IN
               /\ Directives(r.data) = 1
               /\ kind[c] \in {"query", "queryPromise"}
                    => r.data = trimEnd(args[c].query) \o <<" FORMAT ", options.format>>
               /\ kind[c] \in InsertKinds
                    => \A i \in 1..Len(r.data) : r.data[i] # " FORMAT "

\* ----------------------------------------------------------------- C20
\* C20: for every table name, every non-empty batch of n records and every
\* configuration, the insert request is the statement "INSERT INTO <table>" with
\* a "FORMAT JSONEachRow" directive, followed by exactly n serialized records,
\* one per line, in the order of the batch.
C20_InsertBody ==
    \A c \in Calls :
        (kind[c] \in InsertKinds /\ req[c] # <<>>)
            => LET items == args[c].data.items IN
               /\ Len(req[c]) = 1
               /\ req[c][1].method = "POST"
               /\ req[c][1].data =
                    <<"INSERT INTO ">> \o args[c].table \o <<" FORMAT JSONEachRow ">>
                        \o SerializedBatch(items)
               /\ Len(SelectSeq(req[c][1].data, LAMBDA x : x \in Records)) = Len(items)

\* ----------------------------------------------------------------- C28
\* C28: after construction the effective configuration never changes: no call,
\* no response and no failure modifies a field of the client's options, of the
\* options object the caller passed, or of the class's defaults; the client's
\* options stay what the constructor made of the passed object.
C28_ConfigNeverChanges ==
    [][/\ options' = options
       /\ ctor' = ctor
       /\ options' = Effective(ctor'.clients[1])]_vars

C28_Witness ==
    \E c \in Calls :
        /\ kind[c] = "insertPromise" /\ pc[c] = "done"
        /\ resp[c].status = "http_error"
        /\ options.httpConfig.compression = "GZIP"
        /\ ctor.passed[1]["httpConfig.compression"] = "GZIP"

\* ----------------------------------------------------------------- C22
\* C22: constructing clients from the same options object yields effective
\* configurations that are equal field for field, and every construction sees
\* the same defaults as the first.
C22_ResolveIsRepeatable ==
    /\ ctor.defaults = ClassDefaults
    /\ \A j, k \in DOMAIN ctor.clients :
            (/\ ctor.clients[j] # NotConstructed
             /\ ctor.clients[k] # NotConstructed
             /\ ctor.passed[j] = ctor.passed[k])
                => \A p \in OptionPaths : ctor.clients[j][p] = ctor.clients[k][p]

C22_Witness ==
    \E j, k \in DOMAIN ctor.clients :
        /\ j < k
        /\ \A i \in DOMAIN ctor.clients : ctor.clients[i] # NotConstructed
        /\ ctor.passed[j] = ctor.passed[k]
        /\ ctor.passed[j]["httpConfig.compression"] = "GZIP"
        /\ \E i \in DOMAIN ctor.clients : ctor.passed[i] # ctor.passed[j]

\* ----------------------------------------------------------------- C29
\* C29: in the effective configuration every field the caller omitted, or
\* passed as undefined, has its default value and every field the caller
\* supplied has the supplied value; field by field, also for the fields nested
\* in httpConfig when only some of them are supplied.
LeafPaths == OptionPaths \ {"httpConfig"}

Supplied(passed, p) == passed[p] \notin {"absent", "undefined", "no object"}

C29_DefaultsFieldByField ==
    \A k \in DOMAIN ctor.clients :
        ctor.clients[k] # NotConstructed
            => \A p \in LeafPaths :
                    ctor.clients[k][p] = IF Supplied(ctor.passed[k], p)
                                         THEN ctor.passed[k][p]
                                         ELSE ClassDefaults[p]

\* ----------------------------------------------------------------- C25
\* C25: queryPromise gets its rows through the push stream: the request it
\* issues is the one query issues for the same arguments, in streaming
\* response mode.
C25_PromiseSubscribesToPush ==
    \A c \in Calls :
        (kind[c] = "queryPromise" /\ req[c] # <<>>)
            => /\ req[c][1].responseType = "stream"
               /\ req[c][1] = _getRequestOptions(args[c].query, args[c].params, FALSE)

\* ----------------------------------------------------------------- C26
\* C26: when the server answers with a non-2xx status and a body, nothing is
\* logged and no error or rejection is delivered before the stream of the error
\* body has signalled its end.
Surfaced(c) ==
    \E i \in 1..Len(trace[c]) : trace[c][i].t \in {"log", "error", "reject"}

C26_ErrorAfterBodyEnd ==
    \A c \in Calls :
        (kind[c] \in PushKinds \cup {"queryPromise"}
            /\ resp[c].status = "http_error" /\ Surfaced(c))
            => resp[c].ending = "end"

C26_Witness ==
    \E c \in Calls :
        /\ kind[c] = "query"
        /\ resp[c].status = "http_error"
        /\ Len(resp[c].chunks) = MaxChunks
        /\ resp[c].ending = "end"
        /\ Surfaced(c)

\* ----------------------------------------------------------------- C27
\* C27: there is no retry: a subscription, a promise call and a ping each issue
\* at most one request, and exactly one is all a call has issued after a
\* server error, a transport failure or a decode failure.
Failed(c) ==
    \/ resp[c].status \in {"http_error", "network_error"}
    \/ pc[c] \in {"parse_error", "aborted"}
    \/ \E i \in 1..Len(trace[c]) : trace[c][i].t = "reject"

C27_AtMostOneRequest ==
    \A c \in Calls :
        /\ Len(req[c]) <= 1
        /\ Failed(c) => Len(req[c]) = 1

C27_Witness ==
    \E c \in Calls :
        /\ kind[c] = "queryPromise"
        /\ pc[c] = "done"
        /\ resp[c].status = "network_error"
        /\ Len(req[c]) = 1

\* ----------------------------------------------------------------- C21
\* C21: calls under way at the same time on one client are independent in
\* every interleaving: a step of one call reads and writes the rows, the error
\* text, the buffers and the terminal of that call only, and leaves every other
\* call as it was.
Cells(c) == <<pc[c], kind[c], args[c], req[c], resp[c], pos[c], parser[c], err[c], trace[c]>>

C21_CallsIndependent ==
    [][\E c \in Calls : \A d \in Calls \ {c} : Cells(d)' = Cells(d)]_vars

\* ----------------------------------------------------------------- C30
\* C30: the streams of query and insert are lazy and not shared: the call
\* issues no request, and every subscription has issued exactly one request of
\* its own, built from the call's arguments, so k subscriptions make k requests.
Subscribed(c) ==
    kind[c] \in {"query", "insert"} /\ pc[c] \notin {"idle", "thrown", "observable", "crashed"}

C30_LazyOneRequestEach ==
    \A c \in Calls :
        /\ (kind[c] \in {"query", "insert"} /\ pc[c] = "observable") => req[c] = <<>>
        /\ Subscribed(c) => req[c] = <<Descriptor(kind[c], args[c])>>

C30_Witness ==
    \E c, d \in Calls :
        /\ c # d
        /\ Subscribed(c) /\ Subscribed(d)
        /\ kind[c] = "query" /\ kind[d] = "query" /\ args[c] = args[d]
        /\ pc[c] = "done" /\ pc[d] = "stream"
        /\ Len(req[c]) + Len(req[d]) = 2

\* ----------------------------------------------------------------- C23
\* C23: the push stream completes exactly when the byte stream has ended
\* cleanly: complete is never delivered while bytes that were received have not
\* been parsed or a parsed row has not been delivered, and it is delivered once
\* the stream has ended and all rows are delivered.
Parsed(c) == SubSeq(resp[c].tokens, 1, pos[c])

Completed(c) == Count(c, "complete") >= 1

\* where the i-th element of `data` ends in the encoded envelope, and the
\* elements that lie within its first n tokens
ElementAt(e, i) == 1 + (IF e.meta THEN 4 ELSE 0) + 2 + i

ElementsWithin(e, n) ==
    [i \in 1..Cardinality({j \in 1..Len(e.rows) : ElementAt(e, j) <= n}) |-> Row(e.rows[i])]

EndedCleanly(c) ==
    kind[c] = "query" /\ resp[c].ending = "end" /\ resp[c].tokens = Encode(resp[c].env)

C23_NoEarlyComplete ==
    \A c \in Calls :
        (kind[c] = "query" /\ Completed(c))
            => /\ resp[c].ending = "end"
               /\ pos[c] = Len(resp[c].tokens)
               /\ IsPrefix(resp[c].tokens, Encode(resp[c].env))
               /\ NextValues(c) = ElementsWithin(resp[c].env, Len(resp[c].tokens))
               /\ Count(c, "complete") = 1

C23_CompleteWhenDrained ==
    /\ []C23_NoEarlyComplete
    /\ \A c \in {1} : EndedCleanly(c) ~> Completed(c)

C23_Witness ==
    \E c \in Calls :
        /\ EndedCleanly(c)
        /\ resp[c].env.rows = <<"r1", "r2">> /\ resp[c].env.stats
        /\ pc[c] = "stream"
        /\ pos[c] < Len(resp[c].tokens)
        /\ Len(NextValues(c)) = 1

\* ----------------------------------------------------------------- C24
\* C24: a row is delivered as soon as its array element has been parsed: it
\* waits neither for later elements nor for the fields after the array nor for
\* the end of the stream, so what has been delivered is at every moment every
\* element of `data` that has gone through the parser.
C24_RowDeliveredWhenParsed ==
    \A c \in Calls :
        (kind[c] = "query" /\ resp[c].status = "ok" /\ IsPrefix(Parsed(c), Encode(resp[c].env)))
            => NextValues(c) = ElementsWithin(resp[c].env, pos[c])

C24_Witness ==
    \E c \in Calls :
        /\ kind[c] = "query" /\ pc[c] = "stream" /\ resp[c].ending = "open"
        /\ resp[c].env.rows = <<"r2", "r1">> /\ resp[c].env.stats
        /\ Parsed(c) # <<>> /\ Parsed(c)[Len(Parsed(c))] = "r2"
        /\ resp[c].tokens = Parsed(c)
        /\ NextValues(c) = <<Row("r2")>>

\* ----------------------------------------------------------------- C31
\* C31: a successful response whose `data` array is empty, or whose envelope
\* has no `data` field, ends cleanly with zero rows: query delivers complete
\* and nothing else, and queryPromise resolves to the empty list.
NoRows(c) ==
    /\ resp[c].status = "ok"
    /\ pc[c] = "done"
    /\ resp[c].env.rows = <<>>
    /\ resp[c].tokens = Encode(resp[c].env)

C31_NoRowsIsCleanEnd ==
    \A c \in Calls :
        /\ (kind[c] = "query" /\ NoRows(c)) => trace[c] = <<Ev("complete", Nothing)>>
        /\ (kind[c] = "queryPromise" /\ NoRows(c)) => trace[c] = <<Ev("resolve", List(<<>>))>>

\* the push shape's half of C31, which the code keeps
C31_QueryHalf ==
    \A c \in Calls :
        (kind[c] = "query" /\ NoRows(c)) => trace[c] = <<Ev("complete", Nothing)>>

====
